---- MODULE Spec2Model ----
(***************************************************************************)
(* A model of graph_refs: the marker type system (_types.py) and the       *)
(* introspection engine (_introspection.py): get_refs, _analyze_type and   *)
(* get_dependencies (direct and transitive).                               *)
(*                                                                         *)
(* Python objects that can appear as a declared type, as a marker          *)
(* parameter or as an argument of the two entry points are records         *)
(* [kind, name, args]:                                                     *)
(*   class     a user class of the schema (name = its name)                *)
(*   builtin   a class without annotations, such as str or int             *)
(*   NoneType  type(None), the absence-type sentinel                       *)
(*   None      the object None                                             *)
(*   str, int  a string / integer object                                   *)
(*   list      a list object (unhashable)                                  *)
(*   tuple     a tuple object                                              *)
(*   instance  an instance of the user class called name                   *)
(*   alias     a graph_refs _GenericAlias: name = __origin__, args =       *)
(*             __args__                                                    *)
(*   Union     typing.Union[...], Literal  typing.Literal[...]             *)
(*   UnionType a types.UnionType (X | Y of two ordinary classes)           *)
(***************************************************************************)
EXTENDS Naturals, Sequences, FiniteSets, TLC

VARIABLES
    schema,     \* class name -> [base, fields]: the declared classes
    pc,         \* "idle", "loop" (inside the while of get_dependencies),
                \* "done" (returned) or "raised" (an exception left the call)
    call,       \* the entry point called and its arguments
    refs,       \* the dict get_refs returned, as the sequence of its values
    result,     \* the set get_dependencies returned
    visited,    \* get_dependencies: visited
    to_visit,   \* get_dependencies: to_visit (a list used as a stack)
    expanded,   \* history: every current whose direct dependencies the
                \* loop computed (line 409), in order
    made,       \* the marker instantiations constructed so far, each with
                \* its identity: [id, value]
    compared,   \* the outcome of the last == and of the hash of its operands
    suspended   \* the locals of the call of another thread that is not
                \* running now

vars == <<schema, pc, call, refs, result, visited, to_visit, expanded,
          made, compared, suspended>>

----------------------------------------------------------------------------
(* Body applied to value, with value computed once *)
Bind(value, Body(_)) == CHOOSE out \in {Body(x) : x \in {value}} : TRUE

----------------------------------------------------------------------------
(* Python values *)

V(kind, name, args) == [kind |-> kind, name |-> name, args |-> args]

Cls(n) == V("class", n, <<>>)
Builtin(n) == V("builtin", n, <<>>)
NoneType == V("NoneType", "NoneType", <<>>)
PyNone == V("None", "None", <<>>)
Str(s) == V("str", s, <<>>)
PyInt(s) == V("int", s, <<>>)
PyList(items) == V("list", "list", items)
PyTuple(items) == V("tuple", "tuple", items)
Instance(n) == V("instance", n, <<>>)
Literal(items) == V("Literal", "Literal", items)
UnionType(items) == V("UnionType", "UnionType", items)

(* The five marker shapes *)
Ref == "Ref"
Attr == "Attr"
RefList == "RefList"
RefDict == "RefDict"
ContextRef == "ContextRef"
MarkerShapes == {Ref, Attr, RefList, RefDict, ContextRef}

(* Variant: only the first argument is stored *)
GenericAliasFirst(origin, args) == V("alias", origin, <<args[1]>>)

(* _GenericAlias(origin, args) *)
GenericAlias(origin, args) == V("alias", origin, args)

(* Ref[item], RefList[item], ContextRef[item]: one-parameter subscripts *)
RefOf(item) == GenericAlias(Ref, <<item>>)
RefListOf(item) == GenericAlias(RefList, <<item>>)
ContextRefOf(item) == GenericAlias(ContextRef, <<item>>)

(* Attr[args], RefDict[args]: the subscript is a tuple and must have        *)
(* exactly two elements, else TypeError (modelled as the value Raised).     *)
Raised == V("raised", "TypeError", <<>>)

(* Variant: further arguments are dropped silently *)
AttrOfTruncates(args) ==
    IF Len(args) < 2 THEN Raised ELSE GenericAlias(Attr, SubSeq(args, 1, 2))

AttrOf(args) == IF Len(args) # 2 THEN Raised ELSE GenericAlias(Attr, args)
RefDictOf(args) == IF Len(args) # 2 THEN Raised ELSE GenericAlias(RefDict, args)

(* __hash__: hash((origin, args)) raises for an unhashable parameter *)
RECURSIVE Hashable(_)
Hashable(v) ==
    CASE v.kind = "list" -> FALSE
      [] v.kind \in {"alias", "tuple", "Union", "Literal", "UnionType"} ->
            \A i \in 1..Len(v.args) : Hashable(v.args[i])
      [] OTHER -> TRUE

(* An object with its identity; 0 for an object that was not constructed    *)
(* by a subscript (a class, a string, ...)                                  *)
Object(id, value) == [id |-> id, value |-> value]

(* Variant: the origins are not compared *)
AliasEqArgsOnly(self, other) ==
    IF other.value.kind = "alias"
    THEN self.value.args = other.value.args
    ELSE FALSE

(* __eq__, lines 444-449 *)
AliasEq(self, other) ==
    IF other.value.kind = "alias"
    THEN self.value.name = other.value.name
            /\ self.value.args = other.value.args
    ELSE FALSE

(* hash(): a number below HashMod, or TypeError for an unhashable object.   *)
(* An object without parts hashes to its place in HashOrder; a tuple        *)
(* combines the hashes of its items in order.                               *)
HashMod == 61
HashOrder ==
    <<Ref, Attr, RefList, RefDict, ContextRef, "A", "B", "Arn", "str",
      "NoneType", "None">>
NameHash(name) ==
    IF \E i \in DOMAIN HashOrder : HashOrder[i] = name
    THEN CHOOSE i \in DOMAIN HashOrder : HashOrder[i] = name
    ELSE 0

RECURSIVE CombineHashes(_)
CombineHashes(hashes) ==
    IF hashes = <<>> THEN 7
    ELSE (31 * CombineHashes(SubSeq(hashes, 1, Len(hashes) - 1))
             + hashes[Len(hashes)]) % HashMod

RECURSIVE HashValue(_)
HashValue(v) ==
    IF v.kind = "alias"
    THEN CombineHashes(<<NameHash(v.name),
                         CombineHashes([i \in DOMAIN v.args |->
                                           HashValue(v.args[i])])>>)
    ELSE IF v.kind = "tuple"
    THEN CombineHashes([i \in DOMAIN v.args |-> HashValue(v.args[i])])
    ELSE NameHash(v.name)

(* Variant: the hash of the identity, as object.__hash__ gives *)
AliasHashById(self) == [raised |-> FALSE, value |-> self.id]

(* __hash__, line 457: hash((self.__origin__, self.__args__)) *)
AliasHash(self) ==
    IF Hashable(self.value)
    THEN [raised |-> FALSE, value |-> HashValue(self.value)]
    ELSE [raised |-> TRUE, value |-> 0]

(* typing.Union[params], which __or__ and __ror__ return: None becomes      *)
(* type(None), nested unions are flattened, duplicates (by __eq__) are      *)
(* dropped keeping the first, and a single member is returned as itself.    *)
RECURSIVE Flatten(_)
Flatten(params) ==
    IF params = <<>> THEN <<>>
    ELSE LET h == IF Head(params) = PyNone THEN NoneType ELSE Head(params)
             rest == Flatten(Tail(params))
         IN IF h.kind \in {"Union", "UnionType"} THEN h.args \o rest
            ELSE <<h>> \o rest

RECURSIVE Dedup(_)
Dedup(params) ==
    IF params = <<>> THEN <<>>
    ELSE LET init == Dedup(SubSeq(params, 1, Len(params) - 1))
             last == params[Len(params)]
         IN IF \E i \in 1..Len(init) : init[i] = last THEN init
            ELSE Append(init, last)

UnionOf(params) ==
    LET flat == Dedup(Flatten(params))
    IN IF Len(flat) = 1 THEN flat[1] ELSE V("Union", "Union", flat)

Or(self, other) == UnionOf(<<self, other>>)
ROr(self, other) == UnionOf(<<other, self>>)

----------------------------------------------------------------------------
(* RefInfo: the frozen dataclass, with its field defaults *)

RefInfo(field, target, attr, is_list, is_dict, is_optional, is_context) ==
    [field |-> field, target |-> target, attr |-> attr, is_list |-> is_list,
     is_dict |-> is_dict, is_optional |-> is_optional,
     is_context |-> is_context]

(* The names and the values an assignment to a RefInfo is tried with *)
RefInfoFields ==
    {"field", "target", "attr", "is_list", "is_dict", "is_optional",
     "is_context"}
AssignValues(name) ==
    IF name \in {"is_list", "is_dict", "is_optional", "is_context"}
    THEN BOOLEAN
    ELSE {Cls("A"), Str("other")}

(* Variant: a dataclass that is not frozen *)
SetAttrAssigns(info, name, value) ==
    [raised |-> FALSE, info |-> [info EXCEPT ![name] = value]]

(* info.name = value: @dataclass(frozen=True), line 50, gives RefInfo a     *)
(* __setattr__ that raises FrozenInstanceError                              *)
SetAttr(info, name, value) == [raised |-> TRUE, info |-> info]

(* _get_origin: typing.get_origin, then the __origin__ attribute *)
NoOrigin == "None"
GetOrigin(hint) ==
    IF hint.kind \in {"Union", "Literal", "UnionType"} THEN hint.name
    ELSE IF hint.kind = "alias" THEN hint.name
    ELSE NoOrigin

(* _get_args: typing.get_args, then the __args__ attribute *)
GetArgs(hint) ==
    IF hint.kind \in {"Union", "Literal", "UnionType"} THEN hint.args
    ELSE IF hint.kind = "alias" THEN hint.args
    ELSE <<>>

(* Variant: the name is kept as declared *)
UnwrapLiteralKeeps(name) == name

(* The Literal["name"] unwrapping of _analyze_type (Attr and ContextRef) *)
UnwrapLiteral(name) ==
    IF GetOrigin(name) # NoOrigin /\ GetArgs(name) # <<>>
    THEN GetArgs(name)[1]
    ELSE name

RECURSIVE AnalyzeType(_, _)

(* Variant: the flags of the inner classification are not copied *)
OptionalInfoDefaults(inner_info) ==
    RefInfo(inner_info.field, inner_info.target, inner_info.attr,
            FALSE, FALSE, TRUE, FALSE)

(* Lines 247-255: the inner classification again, with is_optional=True *)
OptionalInfo(inner_info) ==
    RefInfo(inner_info.field, inner_info.target, inner_info.attr,
            inner_info.is_list, inner_info.is_dict, TRUE,
            inner_info.is_context)

(* Variant: the first member other than None is analyzed, however many *)
AnalyzeUnionFirstMember(field, args) ==
    LET non_none_args == SelectSeq(args, LAMBDA a : a # NoneType)
    IN IF Len(non_none_args) >= 1
       THEN LET inner_info == AnalyzeType(field, non_none_args[1])
            IN IF inner_info # PyNone THEN OptionalInfo(inner_info)
               ELSE PyNone
       ELSE PyNone

(* Lines 240-256: origin is Union *)
AnalyzeUnion(field, args) ==
    LET non_none_args == SelectSeq(args, LAMBDA a : a # NoneType)
    IN IF Len(non_none_args) = 1
       THEN LET inner_info == AnalyzeType(field, non_none_args[1])
            IN IF inner_info # PyNone THEN OptionalInfo(inner_info)
               ELSE PyNone
       ELSE PyNone

(* Variant: is_list is set, as in the RefList branch *)
AnalyzeRefAsList(field, args) ==
    IF args # <<>>
    THEN RefInfo(field, args[1], PyNone, TRUE, FALSE, FALSE, FALSE)
    ELSE PyNone

(* Variant: a string parameter is resolved to the class of that name *)
AnalyzeRefResolves(field, args) ==
    IF args # <<>>
    THEN RefInfo(field,
                 IF args[1].kind = "str" THEN Cls(args[1].name) ELSE args[1],
                 PyNone, FALSE, FALSE, FALSE, FALSE)
    ELSE PyNone

(* Lines 259-262: origin is Ref *)
AnalyzeRef(field, args) ==
    IF args # <<>>
    THEN RefInfo(field, args[1], PyNone, FALSE, FALSE, FALSE, FALSE)
    ELSE PyNone

(* Lines 265-275: origin is Attr *)
AnalyzeAttr(field, args) ==
    IF Len(args) >= 2
    THEN RefInfo(field, args[1], UnwrapLiteral(args[2]),
                 FALSE, FALSE, FALSE, FALSE)
    ELSE PyNone

(* Variant: a RefList inside the RefList is unwrapped *)
AnalyzeRefListUnwraps(field, args) ==
    IF args # <<>>
    THEN RefInfo(field,
                 IF GetOrigin(args[1]) = RefList THEN GetArgs(args[1])[1]
                 ELSE args[1],
                 PyNone, TRUE, FALSE, FALSE, FALSE)
    ELSE PyNone

(* Variant: a list reference is flagged as a dict as well *)
AnalyzeRefListAlsoDict(field, args) ==
    IF args # <<>>
    THEN RefInfo(field, args[1], PyNone, TRUE, TRUE, FALSE, FALSE)
    ELSE PyNone

(* Lines 278-281: origin is RefList *)
AnalyzeRefList(field, args) ==
    IF args # <<>>
    THEN RefInfo(field, args[1], PyNone, TRUE, FALSE, FALSE, FALSE)
    ELSE PyNone

(* Variant: the key type is taken as the target *)
AnalyzeRefDictKey(field, args) ==
    IF Len(args) >= 2
    THEN RefInfo(field, args[1], PyNone, FALSE, TRUE, FALSE, FALSE)
    ELSE PyNone

(* Lines 284-288: origin is RefDict *)
AnalyzeRefDict(field, args) ==
    IF Len(args) >= 2
    THEN RefInfo(field, args[2], PyNone, FALSE, TRUE, FALSE, FALSE)
    ELSE PyNone

(* Lines 291-307: origin is ContextRef *)
AnalyzeContextRef(field, args) ==
    IF args # <<>>
    THEN RefInfo(field, NoneType, UnwrapLiteral(args[1]),
                 FALSE, FALSE, FALSE, TRUE)
    ELSE PyNone

(* _analyze_type: a RefInfo, or None for a hint that is no reference *)
AnalyzeType(field, hint) ==
    LET origin == GetOrigin(hint)
        args == GetArgs(hint)
    IN IF origin = "Union" THEN AnalyzeUnion(field, args)
       ELSE IF origin = Ref THEN AnalyzeRef(field, args)
       ELSE IF origin = Attr THEN AnalyzeAttr(field, args)
       ELSE IF origin = RefList THEN AnalyzeRefList(field, args)
       ELSE IF origin = RefDict THEN AnalyzeRefDict(field, args)
       ELSE IF origin = ContextRef THEN AnalyzeContextRef(field, args)
       ELSE PyNone

----------------------------------------------------------------------------
(* typing.get_type_hints(cls, include_extras=True), as get_refs calls it.   *)
(* A class merges the annotations of its MRO, bases first: a name keeps     *)
(* the place of its first declaration and takes the value of its last. An   *)
(* annotation None becomes type(None); a string annotation is a forward     *)
(* reference, which resolves to the class of that name or raises NameError  *)
(* (also when a derived class redeclares the name). An instance gives the   *)
(* annotations of the nearest class of its MRO that declares any,           *)
(* evaluated without the module's globals. Any other object has no          *)
(* __annotations__: TypeError.                                              *)

(* Variant: the bases are not looked at *)
MROOwn(sch, n) == <<n>>

RECURSIVE MRO(_, _)
MRO(sch, n) ==
    <<n>> \o (IF sch[n].base = "" THEN <<>> ELSE MRO(sch, sch[n].base))

Reverse(s) == [i \in 1..Len(s) |-> s[Len(s) + 1 - i]]

EvalAnnotation(known, value) ==
    IF value = PyNone THEN NoneType
    ELSE IF value.kind = "str"
         THEN IF value.name \in known THEN Cls(value.name) ELSE Raised
         ELSE value

(* The declarations of the first k classes of bases, in order *)
RECURSIVE Declarations(_, _, _)
Declarations(sch, bases, k) ==
    IF k = 0 THEN <<>>
    ELSE Declarations(sch, bases, k - 1) \o sch[bases[k]].fields

(* Variant: a name keeps the value of its first declaration *)
EvalHintsFirstWins(known, decls) ==
    LET n == Len(decls)
        first == SelectSeq([i \in 1..n |-> i],
                           LAMBDA i : \A j \in 1..(i - 1) :
                                         decls[j].name # decls[i].name)
    IN IF \E i \in 1..n : EvalAnnotation(known, decls[i].hint) = Raised
       THEN [raised |-> TRUE, hints |-> <<>>]
       ELSE [raised |-> FALSE,
             hints |-> [p \in 1..Len(first) |->
                          [name |-> decls[first[p]].name,
                           hint |-> EvalAnnotation(known,
                                       decls[first[p]].hint)]]]

(* Variant: a declaration that cannot be evaluated is left out *)
EvalHintsSkipsUnresolved(known, decls) ==
    LET good == SelectSeq(decls,
                   LAMBDA d : EvalAnnotation(known, d.hint) # Raised)
    IN [raised |-> FALSE,
        hints |-> [p \in 1..Len(good) |->
                     [name |-> good[p].name,
                      hint |-> EvalAnnotation(known, good[p].hint)]]]

(* The dict that results from setting decls[i].name to the evaluated        *)
(* decls[i].hint for i = 1, 2, ...; raised when an evaluation raises        *)
EvalHints(known, decls) ==
    LET n == Len(decls)
        first == SelectSeq([i \in 1..n |-> i],
                           LAMBDA i : \A j \in 1..(i - 1) :
                                         decls[j].name # decls[i].name)
        last(i) == CHOOSE j \in i..n :
                      /\ decls[j].name = decls[i].name
                      /\ \A k \in (j + 1)..n : decls[k].name # decls[i].name
    IN IF \E i \in 1..n : EvalAnnotation(known, decls[i].hint) = Raised
       THEN [raised |-> TRUE, hints |-> <<>>]
       ELSE [raised |-> FALSE,
             hints |-> [p \in 1..Len(first) |->
                          [name |-> decls[first[p]].name,
                           hint |-> EvalAnnotation(known,
                                       decls[last(first[p])].hint)]]]

GetTypeHints(sch, obj) ==
    IF obj.kind = "class" /\ obj.name \in DOMAIN sch THEN
        Bind(Reverse(MRO(sch, obj.name)), LAMBDA bases :
            Bind(Declarations(sch, bases, Len(bases)), LAMBDA decls :
                EvalHints(DOMAIN sch, decls)))
    ELSE IF obj.kind \in {"builtin", "NoneType"} THEN
        [raised |-> FALSE, hints |-> <<>>]
    ELSE IF obj.kind = "instance" /\ obj.name \in DOMAIN sch THEN
        Bind(SelectSeq(MRO(sch, obj.name), LAMBDA n : sch[n].fields # <<>>),
             LAMBDA own :
                IF own = <<>> THEN [raised |-> TRUE, hints |-> <<>>]
                ELSE EvalHints({}, sch[own[1]].fields))
    ELSE [raised |-> TRUE, hints |-> <<>>]

(* Variant: a field that does not classify is entered with the value None *)
AnalyzeHintsKeepsNone(hints) ==
    [i \in 1..Len(hints) |-> AnalyzeType(hints[i].name, hints[i].hint)]

(* get_refs, lines 167-170: the entries of the fields that classify *)
AnalyzeHints(hints) ==
    SelectSeq([i \in 1..Len(hints) |->
                  AnalyzeType(hints[i].name, hints[i].hint)],
              LAMBDA info : info # PyNone)

(* get_refs: the dict is modelled by the sequence of its values, in         *)
(* insertion order; its keys are the field names of the values. A failure   *)
(* of get_type_hints gives the empty dict.                                  *)
GetRefs(sch, cls) ==
    Bind(GetTypeHints(sch, cls), LAMBDA got :
        IF got.raised THEN [raised |-> FALSE, refs |-> <<>>]
        ELSE [raised |-> FALSE,
              refs |-> Bind(got.hints, LAMBDA hints : AnalyzeHints(hints))])

(* Variant: type(None) is not discarded *)
GetDependenciesDirectKeepsNone(sch, cls) ==
    Bind(GetRefs(sch, cls), LAMBDA got :
        Bind({got.refs[i].target :
                 i \in {j \in 1..Len(got.refs) : ~got.refs[j].is_context}},
             LAMBDA targets :
                IF got.raised \/ \E t \in targets : ~Hashable(t)
                THEN [raised |-> TRUE, deps |-> {}]
                ELSE [raised |-> FALSE, deps |-> targets]))

(* get_dependencies, lines 389-396: the direct set. Building the set        *)
(* hashes every target, which raises TypeError for an unhashable one.       *)
GetDependenciesDirect(sch, cls) ==
    Bind(GetRefs(sch, cls), LAMBDA got :
        Bind({got.refs[i].target :
                 i \in {j \in 1..Len(got.refs) : ~got.refs[j].is_context}},
             LAMBDA targets :
                IF got.raised \/ \E t \in targets : ~Hashable(t)
                THEN [raised |-> TRUE, deps |-> {}]
                ELSE [raised |-> FALSE, deps |-> targets \ {NoneType}]))

(* list(s) and list.extend(s) of a set s: any iteration order *)
Orderings(S) ==
    {s \in [1..Cardinality(S) -> S] : \A i, j \in DOMAIN s : s[i] = s[j] => i = j}

----------------------------------------------------------------------------
(* Bounds and the schemas the model starts from *)

MaxEdges == 4

ClassOrder == <<"A", "B", "C", "D">>
ClassNames == {ClassOrder[i] : i \in 1..Len(ClassOrder)}

Field(name, hint) == [name |-> name, hint |-> hint]
ClassDecl(base, fields) == [base |-> base, fields |-> fields]

(* Graph schemas: an edge c -> d is a marker field of c whose target is d.  *)
(* The marker shape of the field depends on the target, so that every       *)
(* shape that carries a target occurs as an edge.                           *)
EdgeField(d) ==
    CASE d = "A" -> Field("a", RefOf(Cls("A")))
      [] d = "B" -> Field("b", AttrOf(<<Cls("B"), Str("Arn")>>))
      [] d = "C" -> Field("c", RefListOf(Cls("C")))
      [] d = "D" -> Field("d", Or(RefDictOf(<<Builtin("str"), Cls("D")>>),
                                  PyNone))

(* One further field, x, that a graph schema may declare on A or on B *)
ExtraHints ==
    { ContextRefOf(Str("region")),   \* a context reference
      RefOf(PyList(<<>>)),           \* a marker whose target is unhashable
      Str("Missing"),                \* an unresolvable forward reference
      RefOf(Str("Fwd")),             \* a marker whose target is a string
      RefOf(Cls("C")),               \* a second field whose target is C
      RefOf(NoneType),               \* a marker whose target is type(None)
      Builtin("str") }               \* an ordinary field
NoExtra == [cls |-> "", hint |-> PyNone]
Extras == {[cls |-> c, hint |-> h] : c \in {"A", "B"}, h \in ExtraHints}

EdgeSets(n) == {E \in SUBSET (ClassNames \X ClassNames) : Cardinality(E) <= n}

GraphSchema(E, extra) ==
    [c \in ClassNames |->
        LET targets == SelectSeq(ClassOrder, LAMBDA d : <<c, d>> \in E)
            edges == [i \in 1..Len(targets) |-> EdgeField(targets[i])]
        IN ClassDecl("", IF extra.cls = c
                         THEN Append(edges, Field("x", extra.hint))
                         ELSE edges)]

(* At most MaxEdges edges, or fewer and the further field *)
IsGraphSchema(sch) ==
    \/ \E E \in EdgeSets(MaxEdges) : sch = GraphSchema(E, NoExtra)
    \/ \E E \in EdgeSets(MaxEdges - 1), x \in Extras : sch = GraphSchema(E, x)

(* Declaration schemas: class A declares one field f, of any declared type  *)
(* the marker constructors, the host's unions and ordinary types can give;  *)
(* A may derive from B, which may declare f or g itself.                    *)
TargetArgs ==
    {Cls("A"), Cls("B"), Str("Fwd"), Str("B"), RefListOf(Cls("B")),
     PyList(<<>>), NoneType, PyNone}
NameArgs ==
    {Str("Arn"), Literal(<<Str("Arn")>>), Literal(<<Str("Arn"), Str("Id")>>)}
Markers ==
    {RefOf(t) : t \in TargetArgs}
    \cup {RefListOf(t) : t \in TargetArgs}
    \cup {AttrOf(<<t, n>>) : t \in {Cls("A"), Cls("B")}, n \in NameArgs}
    \cup {RefDictOf(<<k, t>>) : k \in {Builtin("str"), Cls("A")},
                                t \in {Cls("A"), Cls("B")}}
    \cup {ContextRefOf(n) : n \in NameArgs}
Ordinary ==
    {Builtin("str"), Builtin("int"), PyNone, Cls("B"), Str("B"),
     Str("Missing"), UnionType(<<Builtin("int"), NoneType>>),
     UnionOf(<<Builtin("str"), PyNone>>), Literal(<<Str("Arn")>>)}
UnionMarkers == {m \in Markers : Hashable(m)}
Unions ==
    {Or(m, PyNone) : m \in UnionMarkers}
    \cup {ROr(m, PyNone) : m \in UnionMarkers}
    \cup {Or(m, Builtin("str")) : m \in UnionMarkers}
    \cup {Or(Or(m, PyNone), Builtin("int")) : m \in UnionMarkers}
    \cup {Or(m, RefOf(Cls("A"))) : m \in UnionMarkers}
    \cup {Or(m, RefListOf(Cls("B"))) : m \in UnionMarkers}
Hints == Markers \cup Ordinary \cup Unions

BaseFields ==
    {<<>>, <<Field("g", RefOf(Cls("A")))>>, <<Field("f", RefListOf(Cls("B")))>>}

DeclSchema(hint, base, bfields) ==
    [c \in {"A", "B"} |->
        IF c = "A" THEN ClassDecl(base, <<Field("f", hint)>>)
        ELSE ClassDecl("", bfields)]

IsDeclSchema(sch) ==
    \E h \in Hints, b \in {"", "B"}, bf \in BaseFields :
        sch = DeclSchema(h, b, bf)

(* The arguments the entry points are called with *)
StartTypes == {Cls("A")}
Inputs ==
    {Cls("A"), Cls("B"), Instance("A"), Str("not a class"), PyNone,
     PyInt("42"), Builtin("str")}

----------------------------------------------------------------------------
(* The state machine *)

NoCall == [fn |-> "none", cls |-> PyNone, transitive |-> FALSE]
NoCompare == [done |-> FALSE]

(* The locals of one call *)
Frame(p, c, r, res, v, tv, ex) ==
    [pc |-> p, call |-> c, refs |-> r, result |-> res, visited |-> v,
     to_visit |-> tv, expanded |-> ex]
NoFrame == Frame("idle", NoCall, <<>>, {}, {}, <<>>, <<>>)

InitCall ==
    /\ suspended = NoFrame
    /\ pc = "idle"
    /\ call = NoCall
    /\ refs = <<>>
    /\ result = {}
    /\ visited = {}
    /\ to_visit = <<>>
    /\ expanded = <<>>
    /\ made = <<>>
    /\ compared = NoCompare

Init == IsGraphSchema(schema) /\ InitCall

InitDecl == IsDeclSchema(schema) /\ InitCall

(* Variant: the dict of the previous get_refs(cls) is kept and returned *)
GetRefsCallCached(cls) ==
    /\ pc = "idle"
    /\ LET got == GetRefs(schema, cls)
       IN /\ refs' = IF call.fn = "get_refs" /\ call.cls = cls
                     THEN refs ELSE got.refs
          /\ pc' = IF got.raised THEN "raised" ELSE "done"
    /\ call' = [fn |-> "get_refs", cls |-> cls, transitive |-> FALSE]
    /\ UNCHANGED <<schema, result, visited, to_visit, expanded, made, compared, suspended>>

(* get_refs(cls) *)
GetRefsCall(cls) ==
    /\ pc = "idle"
    /\ LET got == GetRefs(schema, cls)
       IN /\ refs' = got.refs
          /\ pc' = IF got.raised THEN "raised" ELSE "done"
    /\ call' = [fn |-> "get_refs", cls |-> cls, transitive |-> FALSE]
    /\ UNCHANGED <<schema, result, visited, to_visit, expanded, made, compared, suspended>>

(* Variant: the start type is marked visited before the loop *)
GetDependenciesCallSeeded(cls, transitive) ==
    /\ pc = "idle"
    /\ call' = [fn |-> "get_dependencies", cls |-> cls,
                transitive |-> transitive]
    /\ LET got == GetDependenciesDirect(schema, cls)
       IN IF got.raised
          THEN pc' = "raised" /\ UNCHANGED <<result, visited, to_visit>>
          ELSE IF ~transitive
          THEN pc' = "done" /\ result' = got.deps
               /\ UNCHANGED <<visited, to_visit>>
          ELSE /\ pc' = "loop"
               /\ visited' = {cls}
               /\ \E order \in Orderings(got.deps) : to_visit' = order
               /\ UNCHANGED result
    /\ UNCHANGED <<schema, refs, expanded, made, compared, suspended>>

(* get_dependencies(cls, transitive), lines 389-400: up to the loop *)
GetDependenciesCall(cls, transitive) ==
    /\ pc = "idle"
    /\ call' = [fn |-> "get_dependencies", cls |-> cls,
                transitive |-> transitive]
    /\ LET got == GetDependenciesDirect(schema, cls)
       IN IF got.raised
          THEN pc' = "raised" /\ UNCHANGED <<result, visited, to_visit>>
          ELSE IF ~transitive
          THEN pc' = "done" /\ result' = got.deps
               /\ UNCHANGED <<visited, to_visit>>
          ELSE /\ pc' = "loop"
               /\ visited' = {}
               /\ \E order \in Orderings(got.deps) : to_visit' = order
               /\ UNCHANGED result
    /\ UNCHANGED <<schema, refs, expanded, made, compared, suspended>>

(* Variant: the work list is replaced by the new dependencies *)
ExpandAssign(current, popped) ==
    \E nested \in {GetDependenciesDirect(schema, current)} :
       /\ visited' = visited \cup {current}
       /\ expanded' = Append(expanded, current)
       /\ pc' = pc
       /\ IF nested.raised
          THEN to_visit' = popped
          ELSE \E order \in Orderings(nested.deps \ visited') :
                  to_visit' = order

(* Variant: the exception of the nested call leaves the loop *)
ExpandNoCatch(current, popped) ==
    \E nested \in {GetDependenciesDirect(schema, current)} :
       /\ visited' = visited \cup {current}
       /\ expanded' = Append(expanded, current)
       /\ IF nested.raised
          THEN pc' = "raised" /\ to_visit' = popped
          ELSE /\ pc' = pc
               /\ \E order \in Orderings(nested.deps \ visited') :
                     to_visit' = popped \o order

(* Variant: only the dependency the iteration yields first is pushed *)
ExpandFirstPushed(current, popped) ==
    \E nested \in {GetDependenciesDirect(schema, current)} :
       /\ visited' = visited \cup {current}
       /\ expanded' = Append(expanded, current)
       /\ pc' = pc
       /\ IF nested.raised
          THEN to_visit' = popped
          ELSE \E order \in Orderings(nested.deps \ visited') :
                  to_visit' = popped \o SelectSeq(order, LAMBDA d : d = order[1])

(* Lines 406-414: current is new. It is marked visited and its direct      *)
(* dependencies that are not visited are pushed; an exception raised while  *)
(* computing them is swallowed.                                             *)
Expand(current, popped) ==
    \E nested \in {GetDependenciesDirect(schema, current)} :
       /\ visited' = visited \cup {current}
       /\ expanded' = Append(expanded, current)
       /\ pc' = pc
       /\ IF nested.raised
          THEN to_visit' = popped
          ELSE \E order \in Orderings(nested.deps \ visited') :
                  to_visit' = popped \o order

(* Variant: no visited guard *)
SkipExpands(current, popped) == Expand(current, popped)

(* Variant: current is read without being popped *)
SkipPeek(current, popped) ==
    to_visit' = to_visit /\ UNCHANGED <<pc, visited, expanded>>

(* Lines 404-405: current was visited already: continue *)
Skip(current, popped) ==
    to_visit' = popped /\ UNCHANGED <<pc, visited, expanded>>

(* One iteration of the while loop, lines 402-414 *)
LoopBody ==
    /\ pc = "loop"
    /\ to_visit # <<>>
    /\ LET current == to_visit[Len(to_visit)]
           popped == SubSeq(to_visit, 1, Len(to_visit) - 1)
       IN IF current \in visited
          THEN Skip(current, popped)
          ELSE Expand(current, popped)
    /\ UNCHANGED <<schema, call, refs, result, made, compared, suspended>>

(* The loop ends and get_dependencies returns visited, line 416 *)
LoopExit ==
    /\ pc = "loop"
    /\ to_visit = <<>>
    /\ pc' = "done"
    /\ result' = visited
    /\ UNCHANGED <<schema, call, refs, visited, to_visit, expanded, made,
                   compared, suspended>>

(* Graph schemas: the entry points are called on the start type A *)
Next ==
    \/ \E cls \in StartTypes : GetRefsCall(cls)
    \/ \E cls \in StartTypes, transitive \in BOOLEAN :
          GetDependenciesCall(cls, transitive)
    \/ LoopBody
    \/ LoopExit

Spec == Init /\ [][Next]_vars

(* The loop is sequential code: it always takes its next step *)
FairSpec == Spec /\ WF_vars(LoopBody) /\ WF_vars(LoopExit)

(* Declaration schemas: the entry points are called on any input *)
NextDecl ==
    \/ \E cls \in Inputs : GetRefsCall(cls)
    \/ \E cls \in Inputs, transitive \in BOOLEAN :
          GetDependenciesCall(cls, transitive)
    \/ LoopBody
    \/ LoopExit

SpecDecl == InitDecl /\ [][NextDecl]_vars

(* Declaration schemas whose field f is declared with an instantiation      *)
(* built by _GenericAlias(origin, args) itself, with any number of          *)
(* arguments, or with the optional of one                                   *)
MaxRawArgs == 3

RawArgs ==
    UNION {[1..n -> {Cls("A"), Cls("B"), Str("Arn")}] : n \in 0..MaxRawArgs}
RawHints ==
    {GenericAlias(shape, args) : shape \in MarkerShapes, args \in RawArgs}
    \cup {Or(GenericAlias(shape, args), PyNone) :
             shape \in MarkerShapes, args \in RawArgs}

InitRaw ==
    /\ \E h \in RawHints : schema = DeclSchema(h, "", <<>>)
    /\ InitCall

SpecRaw == InitRaw /\ [][NextDecl]_vars

(* Declaration schemas, and assignments to the RefInfo objects that         *)
(* get_refs returned                                                        *)
AssignField(i, name, value) ==
    /\ pc = "done"
    /\ call.fn = "get_refs"
    /\ i \in DOMAIN refs
    /\ LET out == SetAttr(refs[i], name, value)
       IN /\ refs' = [refs EXCEPT ![i] = out.info]
          /\ pc' = IF out.raised THEN "raised" ELSE "done"
    /\ call' = [fn |-> "setattr", cls |-> call.cls, transitive |-> FALSE,
                index |-> i, name |-> name, value |-> value]
    /\ UNCHANGED <<schema, result, visited, to_visit, expanded, made, compared,
                   suspended>>

NextFrozen ==
    \/ \E cls \in Inputs : GetRefsCall(cls)
    \/ \E i \in 1..2, name \in RefInfoFields :
          \E value \in AssignValues(name) : AssignField(i, name, value)

SpecFrozen == InitDecl /\ [][NextFrozen]_vars

----------------------------------------------------------------------------
(* Schemas that change between calls: starting from classes without         *)
(* fields, the caller declares and deletes reference fields while no call   *)
(* is running, and calls the entry points again and again.                  *)
MaxMutEdges == 2

(* The entry points are called on A; A and B are the classes that change *)
MutTypes == {Cls("A")}
MutClasses == {"A", "B"}

RECURSIVE CountFields(_, _)
CountFields(sch, k) ==
    IF k = 0 THEN 0
    ELSE Len(sch[ClassOrder[k]].fields) + CountFields(sch, k - 1)

InitMut == schema = GraphSchema({}, NoExtra) /\ InitCall

(* c.__annotations__[name] = hint, for the edge field to d: a new key goes  *)
(* to the end of the dict                                                   *)
DeclareField(c, d) ==
    /\ pc = "idle"
    /\ CountFields(schema, Len(ClassOrder)) < MaxMutEdges
    /\ \A k \in DOMAIN schema[c].fields :
          schema[c].fields[k].name # EdgeField(d).name
    /\ schema' = [schema EXCEPT ![c].fields = Append(@, EdgeField(d))]
    /\ UNCHANGED <<pc, call, refs, result, visited, to_visit, expanded, made,
                   compared, suspended>>

(* del c.__annotations__[name], for the k-th field of c *)
DeleteField(c, k) ==
    /\ pc = "idle"
    /\ k \in DOMAIN schema[c].fields
    /\ schema' = [schema EXCEPT ![c].fields =
                     SubSeq(@, 1, k - 1) \o SubSeq(@, k + 1, Len(@))]
    /\ UNCHANGED <<pc, call, refs, result, visited, to_visit, expanded, made,
                   compared, suspended>>

(* The call is over: its locals are gone, the caller keeps what get_refs    *)
(* and get_dependencies returned last.                                      *)
Return ==
    /\ pc \in {"done", "raised"}
    /\ pc' = "idle"
    /\ visited' = {}
    /\ to_visit' = <<>>
    /\ expanded' = <<>>
    /\ UNCHANGED <<schema, call, refs, result, made, compared, suspended>>

NextMut ==
    \/ \E cls \in MutTypes : GetRefsCall(cls)
    \/ \E cls \in MutTypes, transitive \in BOOLEAN :
          GetDependenciesCall(cls, transitive)
    \/ LoopBody
    \/ LoopExit
    \/ Return
    \/ \E c \in MutClasses, d \in ClassNames : DeclareField(c, d)
    \/ \E c \in MutClasses, k \in 1..MaxMutEdges : DeleteField(c, k)

SpecMut == InitMut /\ [][NextMut]_vars

----------------------------------------------------------------------------
(* Two threads call the entry points on one schema that does not change.    *)
(* One call runs at a time; the scheduler may switch to the other between   *)
(* any two steps, and then the locals of the running call are set aside.    *)
MaxConcEdges == 2

IsConcSchema(sch) ==
    \/ \E E \in EdgeSets(MaxConcEdges) : sch = GraphSchema(E, NoExtra)
    \/ \E E \in EdgeSets(MaxConcEdges - 1), x \in Extras :
          sch = GraphSchema(E, x)

InitConc == IsConcSchema(schema) /\ InitCall

(* Variant: visited is one set that all calls use *)
SwitchSharedVisited ==
    /\ suspended' = Frame(pc, call, refs, result, visited, to_visit, expanded)
    /\ pc' = suspended.pc
    /\ call' = suspended.call
    /\ refs' = suspended.refs
    /\ result' = suspended.result
    /\ visited' = visited
    /\ to_visit' = suspended.to_visit
    /\ expanded' = suspended.expanded
    /\ UNCHANGED <<schema, made, compared>>

(* The other thread runs: refs, direct, visited, to_visit and current are   *)
(* locals of get_refs (167) and get_dependencies (389-400), one set of      *)
(* them per call                                                            *)
Switch ==
    /\ suspended' = Frame(pc, call, refs, result, visited, to_visit, expanded)
    /\ pc' = suspended.pc
    /\ call' = suspended.call
    /\ refs' = suspended.refs
    /\ result' = suspended.result
    /\ visited' = suspended.visited
    /\ to_visit' = suspended.to_visit
    /\ expanded' = suspended.expanded
    /\ UNCHANGED <<schema, made, compared>>

NextConc ==
    \/ \E cls \in StartTypes : GetRefsCall(cls)
    \/ \E cls \in StartTypes, transitive \in BOOLEAN :
          GetDependenciesCall(cls, transitive)
    \/ LoopBody
    \/ LoopExit
    \/ Switch

SpecConc == InitConc /\ [][NextConc]_vars

----------------------------------------------------------------------------
(* The marker type system on its own: up to two markers are constructed     *)
(* by subscripts, until one raises, and then compared.                      *)

MaxParams == 3

Items ==
    {Cls("A"), Str("Arn"), PyList(<<>>), PyTuple(<<Cls("A"), Cls("B")>>)}
ParamSeqs == UNION {[1..n -> Items] : n \in 1..MaxParams}
OneParam == {Ref, RefList, ContextRef}

InitTypes == schema = <<>> /\ InitCall

(* shape[params]. A shape of one parameter receives the subscript as one    *)
(* object (Ref[A, B] is Ref[(A, B)]); Attr and RefDict receive the tuple    *)
(* of the parameters, or the one object that is no tuple: Attr[(A, B)] is   *)
(* Attr[A, B], so one parameter that is a tuple is no input of its own.     *)
Subscript(shape, params) ==
    /\ pc \in {"idle", "made"}
    /\ Len(made) < 2
    /\ shape \in OneParam => Len(params) = 1
    /\ shape \notin OneParam => ~(Len(params) = 1 /\ params[1].kind = "tuple")
    /\ call' = [fn |-> "subscript", shape |-> shape, params |-> params]
    /\ LET value == CASE shape = Ref -> RefOf(params[1])
                      [] shape = RefList -> RefListOf(params[1])
                      [] shape = ContextRef -> ContextRefOf(params[1])
                      [] shape = Attr -> AttrOf(params)
                      [] shape = RefDict -> RefDictOf(params)
       IN IF value = Raised
          THEN pc' = "raised" /\ made' = made
          ELSE /\ pc' = "made"
               /\ made' = Append(made, Object(Len(made) + 1, value))
    /\ compared' = NoCompare
    /\ UNCHANGED <<schema, refs, result, visited, to_visit, expanded,
                   suspended>>

(* left == right, with the hashes of both *)
Compare(left, right) ==
    /\ pc \in {"made", "assigned"}
    /\ compared' = [done |-> TRUE, left |-> left, right |-> right,
                    eq |-> AliasEq(left, right),
                    hash_left |-> AliasHash(left),
                    hash_right |-> AliasHash(right)]
    /\ pc' = "compared"
    /\ UNCHANGED <<schema, call, refs, result, visited, to_visit, expanded,
                   made, suspended>>

NextTypes ==
    \/ \E shape \in MarkerShapes, params \in ParamSeqs :
          Subscript(shape, params)
    \/ \E i, j \in DOMAIN made : Compare(made[i], made[j])
    \/ \E i \in DOMAIN made, v \in Items \cup {PyNone} :
          Compare(made[i], Object(0, v))

SpecTypes == InitTypes /\ [][NextTypes]_vars

(* The marker type system with assignments to the attributes of a marker    *)
(* instantiation, on the parameters A and "Arn".                            *)
AssignParams ==
    {p \in ParamSeqs :
        Len(p) <= 2 /\ \A i \in DOMAIN p : p[i] \in {Cls("A"), Str("Arn")}}

(* alias.__origin__ = value or alias.__args__ = value, for the i-th object  *)
(* made: _GenericAlias declares the two names as __slots__ (line 411) and   *)
(* defines no __setattr__, so the assignment is carried out.                *)
AssignSlot(i, slot, value) ==
    /\ pc \in {"made", "assigned"}
    /\ i \in DOMAIN made
    /\ made' = [made EXCEPT ![i].value =
                   IF slot = "__origin__"
                   THEN GenericAlias(value, GetArgs(@))
                   ELSE GenericAlias(GetOrigin(@), value)]
    /\ made' # made
    /\ pc' = "assigned"
    /\ compared' = NoCompare
    /\ UNCHANGED <<schema, call, refs, result, visited, to_visit, expanded,
                   suspended>>

NextAssign ==
    \/ \E shape \in MarkerShapes, params \in AssignParams :
          Subscript(shape, params)
    \/ \E i, j \in DOMAIN made : Compare(made[i], made[j])
    \/ \E i \in DOMAIN made, shape \in MarkerShapes :
          AssignSlot(i, "__origin__", shape)
    \/ \E i \in DOMAIN made, params \in AssignParams :
          AssignSlot(i, "__args__", params)

SpecAssign == InitTypes /\ [][NextAssign]_vars

----------------------------------------------------------------------------
(* The vocabulary of the claims: what a class declares, read off its        *)
(* resolved field declarations by the table of the five marker shapes.      *)

ResolvedFields(sch, t) == GetTypeHints(sch, t).hints

(* The optional convention: a union of exactly one member and absence *)
IsOptionalOf(h, m) ==
    /\ h.kind = "Union"
    /\ Len(h.args) = 2
    /\ m # NoneType
    /\ h.args \in {<<m, NoneType>>, <<NoneType, m>>}

Arity(shape) == IF shape \in {Attr, RefDict} THEN 2 ELSE 1

IsMarker(m) ==
    m.kind = "alias" /\ m.name \in MarkerShapes /\ Len(m.args) = Arity(m.name)

(* The marker a declared type carries, directly or as an optional *)
MarkerOf(h) ==
    IF IsMarker(h) THEN {h}
    ELSE IF h.kind = "Union"
    THEN {h.args[i] : i \in {j \in 1..Len(h.args) :
                                IsMarker(h.args[j]) /\ IsOptionalOf(h, h.args[j])}}
    ELSE {}

MarkerTarget(m) ==
    IF m.name = RefDict THEN m.args[2]
    ELSE IF m.name = ContextRef THEN NoneType
    ELSE m.args[1]

DeclaredTargets(sch, t) ==
    LET fields == ResolvedFields(sch, t)
    IN {MarkerTarget(m) : m \in {k \in UNION {MarkerOf(fields[i].hint) :
                                               i \in 1..Len(fields)} :
                                    k.name # ContextRef}}

(* A type whose direct dependencies cannot be computed *)
Fails(sch, t) == \E x \in DeclaredTargets(sch, t) : ~Hashable(x)

(* The type graph: the edges out of a type are the targets of its           *)
(* non-context reference fields; a type that fails has none.                *)
TypeEdges(sch, t) ==
    IF Fails(sch, t) THEN {} ELSE DeclaredTargets(sch, t) \ {NoneType}

RECURSIVE ReachClosure(_, _)
ReachClosure(sch, S) ==
    LET T == S \cup UNION {TypeEdges(sch, n) : n \in S}
    IN IF T = S THEN S ELSE ReachClosure(sch, T)

ReachableFrom(sch, t) == ReachClosure(sch, TypeEdges(sch, t))

Returned(fn) == pc = "done" /\ call.fn = fn
TransitiveReturned == Returned("get_dependencies") /\ call.transitive
DirectReturned == Returned("get_dependencies") /\ ~call.transitive

----------------------------------------------------------------------------
(* C1: get_dependencies(T, transitive=True) returns exactly the set of      *)
(* types reachable from T along one or more non-context reference fields:   *)
(* nothing reachable is missing, nothing unreachable is present, and the    *)
(* result is a set, so a type reached along several paths occurs once.      *)
C1_TransitiveIsReachable ==
    TransitiveReturned => result = ReachableFrom(schema, call.cls)

(* The diamond A -> B, C; B, C -> D returns exactly {B, C, D} *)
C1_Witness ==
    /\ TransitiveReturned
    /\ call.cls = Cls("A")
    /\ TypeEdges(schema, Cls("A")) = {Cls("B"), Cls("C")}
    /\ TypeEdges(schema, Cls("B")) = {Cls("D")}
    /\ TypeEdges(schema, Cls("C")) = {Cls("D")}
    /\ TypeEdges(schema, Cls("D")) = {}
    /\ result = {Cls("B"), Cls("C"), Cls("D")}

(* C2: get_dependencies(T, transitive=True) terminates on every finite      *)
(* type graph, cycles and self references included: once the loop is        *)
(* entered, the work list eventually becomes empty and the call returns.    *)
C2_Terminates == (pc = "loop") ~> (pc = "done" /\ to_visit = <<>>)

(* A call on a type that references itself, within a longer cycle           *)
C2_Witness ==
    /\ TransitiveReturned
    /\ call.cls \in TypeEdges(schema, call.cls)
    /\ \E n \in result \ {call.cls} : call.cls \in ReachableFrom(schema, n)
    /\ call.cls \in result

C4_DirectIsDeclaredTargets ==
    DirectReturned => result = DeclaredTargets(schema, call.cls) \ {NoneType}

(* Two fields with the targets A and B *)
C4_Witness ==
    /\ DirectReturned
    /\ call.cls = Cls("A")
    /\ Len(ResolvedFields(schema, Cls("A"))) = 2
    /\ result = {Cls("A"), Cls("B")}

(* C5: in transitive mode a failure to compute the direct dependencies of   *)
(* a discovered type does not leave the call: the call does not raise, the  *)
(* failing type is in the result and adds no further type, and what is      *)
(* reachable through the other types is returned.                           *)
C5_FailureSwallowed ==
    (call.fn = "get_dependencies" /\ call.transitive
        /\ ~Fails(schema, call.cls)) =>
    /\ pc # "raised"
    /\ pc = "done" =>
        LET bad == {n \in ReachableFrom(schema, call.cls) : Fails(schema, n)}
        IN /\ bad \subseteq result
           /\ result \subseteq ReachableFrom(schema, call.cls)
           /\ ReachableFrom(schema, call.cls) \subseteq result

(* B fails and declares an edge to D; C is reached through A *)
C5_Witness ==
    /\ TransitiveReturned
    /\ Fails(schema, Cls("B"))
    /\ Cls("D") \in DeclaredTargets(schema, Cls("B"))
    /\ result = {Cls("B"), Cls("C")}

----------------------------------------------------------------------------
(* The entries get_refs returned for the field called name *)
EntriesOf(name) == {refs[i] : i \in {j \in DOMAIN refs : refs[j].field = name}}

(* The fields of the class get_refs was called on, after resolution *)
CalledFields == ResolvedFields(schema, call.cls)
ExtractedClass == Returned("get_refs") /\ call.cls.kind = "class"

(* The inputs whose field set cannot be resolved *)
NotAType(x) == x.kind \notin {"class", "builtin", "NoneType"}
NoDeclarations(sch, x) ==
    /\ x.kind \in {"class", "builtin", "NoneType"}
    /\ x.kind = "class" =>
          \A i \in DOMAIN MRO(sch, x.name) : sch[MRO(sch, x.name)[i]].fields = <<>>
UnresolvableForward(sch, x) ==
    /\ x.kind = "class"
    /\ \E i \in DOMAIN MRO(sch, x.name) :
          LET fields == sch[MRO(sch, x.name)[i]].fields
          IN \E k \in DOMAIN fields :
                /\ fields[k].hint.kind = "str"
                /\ fields[k].hint.name \notin DOMAIN sch

(* C6: get_refs on an input whose field set cannot be resolved (a value     *)
(* that is not a type, a type without field declarations, a type with an    *)
(* unresolvable forward reference) returns the empty dict and never raises. *)
C6_UnresolvedGivesEmpty ==
    (call.fn = "get_refs"
        /\ \/ NotAType(call.cls)
           \/ NoDeclarations(schema, call.cls)
           \/ UnresolvableForward(schema, call.cls)) =>
    pc = "done" /\ refs = <<>>

(* C7: a field declared as the optional convention of a marker (the union   *)
(* of that marker and None, in either order) is classified as the marker    *)
(* alone is, except that is_optional is True; a marker that is not wrapped  *)
(* has is_optional False.                                                   *)
C7_OptionalPreservesInner ==
    ExtractedClass =>
    \A i \in DOMAIN CalledFields :
        LET name == CalledFields[i].name
            h == CalledFields[i].hint
        IN /\ \A m \in MarkerOf(h) \ {h} :
                 EntriesOf(name) =
                    {[AnalyzeType(name, m) EXCEPT !.is_optional = TRUE]}
           /\ IsMarker(h) =>
                 \A e \in EntriesOf(name) : ~e.is_optional

(* None | RefList[B]: the list flag is kept and the optional flag set *)
C7_Witness ==
    /\ ExtractedClass
    /\ \E i \in DOMAIN CalledFields :
          /\ CalledFields[i].hint.kind = "Union"
          /\ CalledFields[i].hint.args = <<NoneType, RefListOf(Cls("B"))>>
          /\ \E e \in EntriesOf(CalledFields[i].name) :
                e.is_list /\ e.is_optional /\ e.target = Cls("B")

(* A union with more than one member other than None, and the schema in    *)
(* which the fields so declared are ordinary fields                         *)
ManyMembers(h) ==
    /\ h.kind = "Union"
    /\ Cardinality({j \in DOMAIN h.args : h.args[j] # NoneType}) > 1

WithoutUnions(sch) ==
    [c \in DOMAIN sch |->
        [sch[c] EXCEPT !.fields =
            [k \in DOMAIN sch[c].fields |->
                IF ManyMembers(sch[c].fields[k].hint)
                THEN Field(sch[c].fields[k].name, Builtin("str"))
                ELSE sch[c].fields[k]]]]

(* C8: a field whose declared type is a union with more than one member     *)
(* other than None has no entry in the dict get_refs returns, and the       *)
(* dependency sets are those of the schema in which the field is an         *)
(* ordinary one.                                                            *)
C8_UnionNotClassified ==
    /\ ExtractedClass =>
          \A i \in DOMAIN CalledFields :
              ManyMembers(CalledFields[i].hint) =>
                  EntriesOf(CalledFields[i].name) = {}
    /\ DirectReturned =>
          result = DeclaredTargets(WithoutUnions(schema), call.cls) \ {NoneType}
    /\ TransitiveReturned =>
          result = ReachableFrom(WithoutUnions(schema), call.cls)

(* Ref[B] | None | int declared by A: no entry, and B is no dependency *)
C8_Witness ==
    /\ call.cls = Cls("A")
    /\ \E i \in DOMAIN ResolvedFields(schema, Cls("A")) :
          ResolvedFields(schema, Cls("A"))[i].hint.args =
              <<RefOf(Cls("B")), NoneType, Builtin("int")>>
    /\ \/ Returned("get_refs") /\ EntriesOf("f") = {}
       \/ DirectReturned /\ Cls("B") \notin result

(* C9: a field declared Ref[X], not wrapped, is classified with its name,   *)
(* the target X, no attr, and is_list, is_dict, is_optional and is_context  *)
(* all False.                                                               *)
C9_PlainRef ==
    ExtractedClass =>
    \A i \in DOMAIN CalledFields :
        LET name == CalledFields[i].name
            h == CalledFields[i].hint
        IN (IsMarker(h) /\ h.name = Ref) =>
              EntriesOf(name) =
                 {[field |-> name, target |-> h.args[1], attr |-> PyNone,
                   is_list |-> FALSE, is_dict |-> FALSE,
                   is_optional |-> FALSE, is_context |-> FALSE]}

(* A derived class: f: Ref[B] of its own and g: Ref[A] of its base *)
C9_Witness ==
    /\ ExtractedClass
    /\ call.cls = Cls("A")
    /\ Len(refs) = 2
    /\ \E e \in EntriesOf("f") : e.target = Cls("B") /\ ~e.is_list
    /\ \E e \in EntriesOf("g") : e.target = Cls("A") /\ ~e.is_list

(* The name a Literal of one value wraps *)
PlainName(n) == IF n.kind = "Literal" THEN n.args[1] ELSE n

(* C10: a field declared Attr[T, name] is classified with the target T and  *)
(* the attr name, a plain string; with the name declared as                 *)
(* Literal["name"] the entry is equal to that of the plain declaration.     *)
C10_AttrName ==
    ExtractedClass =>
    \A i \in DOMAIN CalledFields :
        LET name == CalledFields[i].name
            h == CalledFields[i].hint
        IN (IsMarker(h) /\ h.name = Attr
               /\ \/ h.args[2].kind = "str"
                  \/ h.args[2].kind = "Literal" /\ Len(h.args[2].args) = 1) =>
              /\ PlainName(h.args[2]).kind = "str"
              /\ EntriesOf(name) =
                    {[field |-> name, target |-> h.args[1],
                      attr |-> PlainName(h.args[2]),
                      is_list |-> FALSE, is_dict |-> FALSE,
                      is_optional |-> FALSE, is_context |-> FALSE]}

(* Attr[B, Literal["Arn"]]: the attr is the string Arn *)
C10_Witness ==
    /\ ExtractedClass
    /\ \E i \in DOMAIN CalledFields :
          /\ CalledFields[i].hint = AttrOf(<<Cls("B"), Literal(<<Str("Arn")>>)>>)
          /\ \E e \in EntriesOf(CalledFields[i].name) :
                e.attr = Str("Arn") /\ e.target = Cls("B")

----------------------------------------------------------------------------
(* The schema in which every RefDict[K, V] is declared RefDict[str, V] *)
EraseKey(h) ==
    IF IsMarker(h) /\ h.name = RefDict
    THEN RefDictOf(<<Builtin("str"), h.args[2]>>)
    ELSE h

EraseKeys(h) ==
    IF h.kind = "Union"
    THEN [h EXCEPT !.args = [j \in DOMAIN h.args |-> EraseKey(h.args[j])]]
    ELSE EraseKey(h)

WithoutKeys(sch) ==
    [c \in DOMAIN sch |->
        [sch[c] EXCEPT !.fields =
            [k \in DOMAIN sch[c].fields |->
                Field(sch[c].fields[k].name, EraseKeys(sch[c].fields[k].hint))]]]

(* C11: a field declared RefDict[K, V] is classified with the target V and  *)
(* is_dict True; K is discarded: it is no target, and the direct and the    *)
(* transitive dependency sets are those of the schema declared with the     *)
(* key str, also when K is a class of the schema.                           *)
C11_RefDictValueIsTarget ==
    /\ ExtractedClass =>
          \A i \in DOMAIN CalledFields :
              LET name == CalledFields[i].name
                  h == CalledFields[i].hint
              IN (IsMarker(h) /\ h.name = RefDict) =>
                    EntriesOf(name) =
                       {[field |-> name, target |-> h.args[2], attr |-> PyNone,
                         is_list |-> FALSE, is_dict |-> TRUE,
                         is_optional |-> FALSE, is_context |-> FALSE]}
    /\ DirectReturned =>
          result = DeclaredTargets(WithoutKeys(schema), call.cls) \ {NoneType}
    /\ TransitiveReturned =>
          result = ReachableFrom(WithoutKeys(schema), call.cls)

(* RefDict[A, B] declared by A: B is the only dependency of A *)
C11_Witness ==
    /\ DirectReturned
    /\ call.cls = Cls("A")
    /\ schema["A"].fields = <<Field("f", RefDictOf(<<Cls("A"), Cls("B")>>))>>
    /\ schema["A"].base = ""
    /\ result = {Cls("B")}

----------------------------------------------------------------------------
(* C12: the keys of the dict get_refs returns are exactly the resolved      *)
(* fields whose declared type is one of the five markers, directly or as    *)
(* an optional; a field of an ordinary type is no key, and no value is      *)
(* None.                                                                    *)
C12_KeysAreMarkerFields ==
    ExtractedClass =>
        /\ \A i \in DOMAIN refs : refs[i] # PyNone
        /\ {refs[i].field : i \in DOMAIN refs} =
              {CalledFields[i].name :
                  i \in {j \in DOMAIN CalledFields :
                            MarkerOf(CalledFields[j].hint) # {}}}
        /\ \A i, j \in DOMAIN refs : refs[i].field = refs[j].field => i = j

(* An inherited marker field g and an ordinary field f: g is the only key *)
C12_Witness ==
    /\ ExtractedClass
    /\ call.cls = Cls("A")
    /\ Len(CalledFields) = 2
    /\ \E i \in DOMAIN CalledFields :
          CalledFields[i].name = "f" /\ CalledFields[i].hint = Builtin("int")
    /\ {refs[i].field : i \in DOMAIN refs} = {"g"}

----------------------------------------------------------------------------
(* The targets a declared type adds to the dependencies *)
HintTargets(h) ==
    {MarkerTarget(m) : m \in {k \in MarkerOf(h) : k.name # ContextRef}}
        \ {NoneType}

(* C13: for a derived class that inherits a reference field from its base   *)
(* and declares a reference field of its own, get_refs on the derived       *)
(* class has an entry for both, and get_dependencies on it includes the     *)
(* targets of both.                                                         *)
C13_InheritedAndOwn ==
    (call.cls.kind = "class" /\ schema[call.cls.name].base # "") =>
    LET own == schema[call.cls.name].fields
        inherited == schema[schema[call.cls.name].base].fields
    IN \A i \in DOMAIN own, j \in DOMAIN inherited :
          (/\ own[i].name # inherited[j].name
           /\ MarkerOf(own[i].hint) # {}
           /\ MarkerOf(inherited[j].hint) # {}) =>
          /\ Returned("get_refs") =>
                /\ EntriesOf(own[i].name) # {}
                /\ EntriesOf(inherited[j].name) # {}
          /\ Returned("get_dependencies") =>
                /\ HintTargets(own[i].hint) \subseteq result
                /\ HintTargets(inherited[j].hint) \subseteq result

(* A(B) declares f: Ref[B] and inherits g: Ref[A] *)
C13_Witness ==
    /\ DirectReturned
    /\ call.cls = Cls("A")
    /\ schema["A"] = ClassDecl("B", <<Field("f", RefOf(Cls("B")))>>)
    /\ schema["B"] = ClassDecl("", <<Field("g", RefOf(Cls("A")))>>)
    /\ result = {Cls("A"), Cls("B")}

----------------------------------------------------------------------------
(* C14: when a derived class redeclares a field name of its base,           *)
(* get_refs on the derived class classifies the derived declaration only:   *)
(* redeclared with an ordinary type the field has no entry, redeclared      *)
(* with a marker its entry is that of the derived marker.                   *)
C14_OverrideShadowsBase ==
    (ExtractedClass /\ schema[call.cls.name].base # "") =>
    LET own == schema[call.cls.name].fields
        inherited == schema[schema[call.cls.name].base].fields
    IN \A i \in DOMAIN own, j \in DOMAIN inherited :
          (own[i].name = inherited[j].name /\ MarkerOf(inherited[j].hint) # {}) =>
          /\ MarkerOf(own[i].hint) = {} => EntriesOf(own[i].name) = {}
          /\ \A m \in MarkerOf(own[i].hint) :
                /\ Cardinality(EntriesOf(own[i].name)) = 1
                /\ \A e \in EntriesOf(own[i].name) :
                      /\ e.target = MarkerTarget(m)
                      /\ e.is_list = (m.name = RefList)
                      /\ e.is_dict = (m.name = RefDict)
                      /\ e.is_context = (m.name = ContextRef)
                      /\ e.is_optional = (own[i].hint # m)
                      /\ (e.attr # PyNone) = (m.name \in {Attr, ContextRef})

(* B declares f: RefList[B]; A(B) redeclares f: Ref[A] *)
C14_Witness ==
    /\ ExtractedClass
    /\ call.cls = Cls("A")
    /\ schema["A"] = ClassDecl("B", <<Field("f", RefOf(Cls("A")))>>)
    /\ schema["B"].fields = <<Field("f", RefListOf(Cls("B")))>>
    /\ Len(refs) = 1
    /\ \E e \in EntriesOf("f") : e.target = Cls("A") /\ ~e.is_list

----------------------------------------------------------------------------
(* C15: constructing an Attr or a RefDict marker with a number of           *)
(* parameters other than 2 raises at the subscript and no marker is made;   *)
(* with exactly 2 parameters the marker is made.                            *)
C15_ArityChecked ==
    [][(/\ call'.fn = "subscript"
        /\ pc' \in {"made", "raised"}
        /\ call'.shape \in {Attr, RefDict}) =>
       IF Len(call'.params) = 2
       THEN /\ pc' = "made"
            /\ Len(made') = Len(made) + 1
            /\ SubSeq(made', 1, Len(made)) = made
            /\ made'[Len(made')].value =
                  GenericAlias(call'.shape, call'.params)
       ELSE pc' = "raised" /\ made' = made]_vars

(* Attr[A, "Arn", A] after a marker was made: it raises *)
C15_Witness ==
    /\ pc = "raised"
    /\ call.fn = "subscript"
    /\ call.shape = Attr
    /\ call.params = <<Cls("A"), Str("Arn"), Cls("A")>>
    /\ Len(made) = 1

(* C16: two marker instantiations are equal exactly when their origins are  *)
(* the same and their parameters are equal in order; equal instantiations   *)
(* have equal hashes; an instantiation is not equal to an object that is    *)
(* no instantiation.                                                        *)
C16_StructuralEquality ==
    compared.done =>
    LET left == compared.left.value
        right == compared.right.value
    IN IF right.kind = "alias"
       THEN /\ compared.eq <=> (/\ GetOrigin(left) = GetOrigin(right)
                                /\ GetArgs(left) = GetArgs(right))
            /\ compared.eq => compared.hash_left = compared.hash_right
       ELSE ~compared.eq

(* Two objects made by the same subscript: equal, with the same hash *)
C16_Witness ==
    /\ compared.done
    /\ compared.left.id # compared.right.id
    /\ compared.right.id # 0
    /\ compared.eq
    /\ ~compared.hash_left.raised
    /\ compared.hash_left = compared.hash_right

(* C17: for each of the five shapes, the subscript gives an instantiation   *)
(* whose origin is the shape and whose arguments are the parameters         *)
(* supplied, in order.                                                      *)
C17_OriginAndArgs ==
    (pc = "made" /\ call.fn = "subscript") =>
        /\ GetOrigin(made[Len(made)].value) = call.shape
        /\ GetArgs(made[Len(made)].value) = call.params

(* RefDict["Arn", A]: the arguments are ("Arn", A), in this order *)
C17_Witness ==
    /\ pc = "made"
    /\ call.fn = "subscript"
    /\ call.shape = RefDict
    /\ GetArgs(made[Len(made)].value) = <<Str("Arn"), Cls("A")>>

(* C18: in every RefInfo get_refs returns, target is a type object (a      *)
(* class, a builtin type), and for a context reference it is type(None);    *)
(* it is never None and never a value of another kind.                      *)
C18_TargetIsType ==
    Returned("get_refs") =>
    \A i \in DOMAIN refs :
        IF refs[i].is_context
        THEN refs[i].target = NoneType
        ELSE ~NotAType(refs[i].target)

(* An entry of field f with the given is_list, is_dict and is_optional *)
FlaggedEntry(is_list, is_dict, is_optional) ==
    /\ ExtractedClass
    /\ \E e \in EntriesOf("f") :
          /\ e.is_list = is_list
          /\ e.is_dict = is_dict
          /\ e.is_optional = is_optional

(* is_list and is_dict each occur with is_optional False and True *)
ListNotOptional == FlaggedEntry(TRUE, FALSE, FALSE)
ListOptional == FlaggedEntry(TRUE, FALSE, TRUE)
DictNotOptional == FlaggedEntry(FALSE, TRUE, FALSE)

(* C19: in every RefInfo get_refs returns, is_list and is_dict are never    *)
(* both True, and an entry with is_context True has is_list and is_dict     *)
(* False; is_list and is_dict each occur with is_optional True and False.   *)
C19_ListDictExclusive ==
    Returned("get_refs") =>
    \A i \in DOMAIN refs :
        /\ ~(refs[i].is_list /\ refs[i].is_dict)
        /\ refs[i].is_context => (~refs[i].is_list /\ ~refs[i].is_dict)

(* f: RefDict[str, B] | None: is_dict with is_optional *)
C19_Witness ==
    /\ FlaggedEntry(FALSE, TRUE, TRUE)
    /\ \E i \in DOMAIN CalledFields :
          /\ CalledFields[i].name = "f"
          /\ IsOptionalOf(CalledFields[i].hint,
                          RefDictOf(<<Builtin("str"), Cls("B")>>))

----------------------------------------------------------------------------
(* The reference fields of the class called, read off the schema as it is:  *)
(* the name and the target of each, in the order of declaration             *)
DeclaredNow ==
    LET marked == SelectSeq(CalledFields, LAMBDA f : MarkerOf(f.hint) # {})
    IN [i \in DOMAIN marked |->
           <<marked[i].name,
             MarkerTarget(CHOOSE m \in MarkerOf(marked[i].hint) : TRUE)>>]

(* C20: after any sequence of schema changes and calls, get_refs returns    *)
(* the classification of the field declarations as they are at that call,   *)
(* and get_dependencies the dependencies of the graph as it is at that      *)
(* call: nothing an earlier call returned is reused.                        *)
C20_FreshEachCall ==
    /\ Returned("get_refs") =>
          [i \in DOMAIN refs |-> <<refs[i].field, refs[i].target>>] = DeclaredNow
    /\ DirectReturned =>
          result = DeclaredTargets(schema, call.cls) \ {NoneType}
    /\ TransitiveReturned =>
          result = ReachableFrom(schema, call.cls)

(* get_dependencies(A) returned {B} while A declared b; then b was deleted  *)
(* and c declared, and get_refs(A) returns the one entry for c              *)
C20_Witness ==
    /\ Returned("get_refs")
    /\ call.cls = Cls("A")
    /\ result = {Cls("B")}
    /\ Len(schema["A"].fields) = 1
    /\ Len(refs) = 1
    /\ refs[1].field = "c"
    /\ refs[1].target = Cls("C")

----------------------------------------------------------------------------
(* What a call returns when it runs alone on the schema *)
AloneOutcome(f) ==
    IF f.call.fn = "get_refs"
    THEN f.pc = "done" => f.refs = GetRefs(schema, f.call.cls).refs
    ELSE IF f.call.fn = "get_dependencies"
    THEN /\ f.pc = "raised" <=>
               GetDependenciesDirect(schema, f.call.cls).raised
         /\ (f.pc = "done" /\ ~f.call.transitive) =>
               f.result = GetDependenciesDirect(schema, f.call.cls).deps
         /\ (f.pc = "done" /\ f.call.transitive) =>
               f.result = ReachableFrom(schema, f.call.cls)
    ELSE TRUE

Running == Frame(pc, call, refs, result, visited, to_visit, expanded)

(* C21: when calls of get_refs and get_dependencies run concurrently, their *)
(* steps interleaved in any order, on declarations that do not change,      *)
(* each call returns what it returns alone; a step of one call leaves the   *)
(* visited set and the work list of the other as they are, and nothing      *)
(* outside the calls is written.                                            *)
C21_ConcurrentCallsIndependent ==
    /\ [](AloneOutcome(Running) /\ AloneOutcome(suspended))
    /\ [][/\ schema' = schema
          /\ suspended' # suspended => suspended' = Running]_vars

(* Both calls are inside the loop, each with its own visited and work list *)
C21_Witness ==
    /\ pc = "loop"
    /\ suspended.pc = "loop"
    /\ visited # {}
    /\ suspended.visited # {}
    /\ visited # suspended.visited
    /\ to_visit # <<>>
    /\ suspended.to_visit # <<>>

----------------------------------------------------------------------------
(* One traversal: every set is listed in the one order SomeOrder picks *)
SomeOrder(S) == CHOOSE s \in Orderings(S) : TRUE

RECURSIVE RunInSomeOrder(_, _, _)
RunInSomeOrder(sch, seen, work) ==
    IF work = <<>> THEN seen
    ELSE LET current == work[Len(work)]
             popped == SubSeq(work, 1, Len(work) - 1)
         IN IF current \in seen
            THEN RunInSomeOrder(sch, seen, popped)
            ELSE LET nested == GetDependenciesDirect(sch, current)
                     now == seen \cup {current}
                 IN RunInSomeOrder(sch, now,
                       IF nested.raised THEN popped
                       ELSE popped \o SomeOrder(nested.deps \ now))

(* C22: the set get_dependencies(T, transitive=True) returns does not       *)
(* depend on the traversal order: whatever the order in which the direct    *)
(* set is listed and the dependencies are pushed and popped, the result is  *)
(* the set one fixed traversal gives, so repeated calls return equal sets.  *)
C22_OrderIndependent ==
    TransitiveReturned =>
        result = RunInSomeOrder(schema, {},
                    SomeOrder(GetDependenciesDirect(schema, call.cls).deps))

(* A -> B, C and B -> D, with C expanded first and B after it *)
C22_Witness ==
    /\ TransitiveReturned
    /\ TypeEdges(schema, Cls("A")) = {Cls("B"), Cls("C")}
    /\ TypeEdges(schema, Cls("B")) = {Cls("D")}
    /\ expanded = <<Cls("C"), Cls("B"), Cls("D")>>
    /\ result = {Cls("B"), Cls("C"), Cls("D")}

(* The same graph with B expanded first *)
C22_OtherOrder ==
    /\ TransitiveReturned
    /\ TypeEdges(schema, Cls("A")) = {Cls("B"), Cls("C")}
    /\ TypeEdges(schema, Cls("B")) = {Cls("D")}
    /\ expanded = <<Cls("B"), Cls("D"), Cls("C")>>
    /\ result = {Cls("B"), Cls("C"), Cls("D")}

----------------------------------------------------------------------------
(* C23: a marker instantiation is immutable once constructed: no operation  *)
(* changes its origin or its arguments after construction, so its equality  *)
(* and its hash stay what they were.                                        *)
C23_NeverMutated ==
    [][\A i \in DOMAIN made :
          /\ i \in DOMAIN made'
          /\ made'[i] = made[i]
          /\ AliasHash(made'[i]) = AliasHash(made[i])]_vars

----------------------------------------------------------------------------
(* C24: a RefInfo is immutable: an assignment to any of its fields after    *)
(* construction raises and leaves every field of the record as it was.      *)
C24_RefInfoFrozen ==
    [][(call'.fn = "setattr" /\ call.fn # "setattr") =>
          /\ pc' = "raised"
          /\ refs' = refs]_vars

(* info.target = A was tried on the entry with target B: it raised and the  *)
(* target is B                                                              *)
C24_Witness ==
    /\ pc = "raised"
    /\ call.fn = "setattr"
    /\ call.name = "target"
    /\ call.value = Cls("A")
    /\ refs[call.index].target = Cls("B")

----------------------------------------------------------------------------
(* An instantiation of one of the five shapes with a number of arguments    *)
(* that is not the one the shape requires                                   *)
WrongCount(h) ==
    /\ h.kind = "alias"
    /\ h.name \in MarkerShapes
    /\ Len(h.args) # Arity(h.name)

(* C25: a declared type whose origin is one of the five shapes but whose    *)
(* number of arguments is not the required one (1 for Ref, RefList and      *)
(* ContextRef, 2 for Attr and RefDict) is no reference: get_refs has no     *)
(* entry for the field.                                                     *)
C25_ExactCountRequired ==
    ExtractedClass =>
    \A i \in DOMAIN CalledFields :
        LET h == CalledFields[i].hint
        IN (WrongCount(h) \/ \E j \in DOMAIN h.args :
                                h.kind = "Union" /\ WrongCount(h.args[j])) =>
              EntriesOf(CalledFields[i].name) = {}

----------------------------------------------------------------------------
(* RefList[RefList[Item]] *)
NestedList(h) ==
    /\ IsMarker(h)
    /\ h.name = RefList
    /\ IsMarker(h.args[1])
    /\ h.args[1].name = RefList

(* What the fields of the class called, other than the field name, reach *)
ReachedByOthers(name) ==
    ReachClosure(schema,
        UNION {HintTargets(CalledFields[i].hint) :
                  i \in {j \in DOMAIN CalledFields :
                            CalledFields[j].name # name}})

----------------------------------------------------------------------------
(* A path of one or more reference fields from t back to t: a sequence of   *)
(* types, each a target of a field of the one before, the first a target    *)
(* of a field of t and the last t itself                                    *)
RECURSIVE PathBack(_, _, _, _)
PathBack(sch, from, to, k) ==
    \/ to \in TypeEdges(sch, from)
    \/ /\ k > 1
       /\ \E n \in TypeEdges(sch, from) : PathBack(sch, n, to, k - 1)

OnCycle(sch, t) ==
    PathBack(sch, t, t, Cardinality(ClassNames) + 1)

(* C27: T is a member of get_dependencies(T, transitive=True) exactly when  *)
(* T is reachable from itself through a cycle of one or more reference      *)
(* fields; in direct mode exactly when a field of T itself targets T.       *)
C27_StartOnlyOnCycle ==
    /\ TransitiveReturned => (call.cls \in result <=> OnCycle(schema, call.cls))
    /\ DirectReturned =>
          (call.cls \in result <=> call.cls \in DeclaredTargets(schema, call.cls))

(* A -> B -> A: the transitive result holds A though no field of A          *)
(* targets A                                                                *)
C27_Witness ==
    /\ TransitiveReturned
    /\ call.cls = Cls("A")
    /\ TypeEdges(schema, Cls("A")) = {Cls("B")}
    /\ Cls("A") \in TypeEdges(schema, Cls("B"))
    /\ Cls("A") \in result

(* A -> B, and nothing leads back to A: the result is without A *)
C27_NoCycle ==
    /\ TransitiveReturned
    /\ call.cls = Cls("A")
    /\ TypeEdges(schema, Cls("A")) = {Cls("B")}
    /\ TypeEdges(schema, Cls("B")) = {Cls("C")}
    /\ result = {Cls("B"), Cls("C")}

----------------------------------------------------------------------------
(* The work list as a set *)
OnWorkList == {to_visit[i] : i \in DOMAIN to_visit}

(* C28: at every step of the loop of the transitive traversal, every        *)
(* member of visited and of the work list is reachable from the start       *)
(* type; every direct dependency of a visited type is visited or on the     *)
(* work list; and visited only grows.                                       *)
C28_LoopInvariant ==
    /\ [](pc = "loop" =>
            /\ visited \cup OnWorkList \subseteq ReachableFrom(schema, call.cls)
            /\ \A n \in visited :
                  TypeEdges(schema, n) \subseteq visited \cup OnWorkList)
    /\ [][pc = "loop" => visited \subseteq visited']_vars

(* Inside the loop: B is visited, its dependency D is on the work list      *)
(* beside C                                                                 *)
C28_Witness ==
    /\ pc = "loop"
    /\ visited = {Cls("B")}
    /\ Cls("D") \in TypeEdges(schema, Cls("B"))
    /\ OnWorkList = {Cls("C"), Cls("D")}

----------------------------------------------------------------------------
(* The schema in which a class with a declaration, own or inherited, that   *)
(* cannot be resolved declares and inherits nothing                         *)
Blanked(sch) ==
    [c \in DOMAIN sch |->
        IF UnresolvableForward(sch, Cls(c))
        THEN ClassDecl("", <<>>)
        ELSE sch[c]]

(* C29: extraction is all or nothing per type: when one field of a type,    *)
(* own or inherited, has a declared type that cannot be resolved, get_refs  *)
(* gives the empty dict whatever the other fields are, the direct           *)
(* dependency set of the type is empty, and a transitive traversal          *)
(* discovers no type through it.                                            *)
C29_AllOrNothing ==
    /\ UnresolvableForward(schema, call.cls) =>
          /\ pc # "raised"
          /\ Returned("get_refs") => refs = <<>>
          /\ Returned("get_dependencies") => result = {}
    /\ TransitiveReturned => result = ReachableFrom(Blanked(schema), call.cls)

(* A -> B; B declares a reference to C, one to D and x: "Missing": the      *)
(* traversal returns B alone                                                *)
C29_Witness ==
    /\ TransitiveReturned
    /\ call.cls = Cls("A")
    /\ UnresolvableForward(schema, Cls("B"))
    /\ ~UnresolvableForward(schema, Cls("A"))
    /\ Len(schema["B"].fields) = 3
    /\ expanded = <<Cls("B")>>
    /\ result = {Cls("B")}

(* A itself declares a reference and x: "Missing": get_refs(A) is empty *)
C29_StartUnresolved ==
    /\ Returned("get_refs")
    /\ UnresolvableForward(schema, call.cls)
    /\ Len(schema["A"].fields) >= 2
    /\ refs = <<>>

----------------------------------------------------------------------------
(* The markers of a declared type whose target parameter is a string *)
StringTargeted(h) ==
    {m \in MarkerOf(h) : m.name # ContextRef /\ MarkerTarget(m).kind = "str"}

====
